---------------------------- MODULE Spec2Model ----------------------------
(***************************************************************************)
(* The local artifact cache and analysis engine of src/server.py:          *)
(* _store_data, cleanup_cache, analyze_data and the three analyzers.       *)
(*                                                                         *)
(* The cache directory is shared state.  Calls interleave at the           *)
(* granularity of single file-system calls: _store_data suspends at its    *)
(* aiofiles awaits (the open and the write run in a worker thread), and    *)
(* several server processes may be started over the same relative          *)
(* directory "datadog_cache", so a cleanup_cache scan can interleave with  *)
(* stores, loads and other scans.                                          *)
(***************************************************************************)
EXTENDS Integers, Sequences, FiniteSets, TLC

(***************************************************************************)
(* JSON values.  Every value is a record [t, n, s, xs, ks]: t is the       *)
(* type, n the number (or 0/1 of a bool), s the characters of a string (a  *)
(* sequence of one-character strings), xs the items of a list or the       *)
(* values of a dict, ks the keys of a dict, in insertion order (a Python   *)
(* dict).  A "datetime" is a value json cannot encode natively; s is the   *)
(* text str() gives for it.                                                *)
(***************************************************************************)
JNull == [t |-> "null", n |-> 0, s |-> <<>>, xs |-> <<>>, ks |-> <<>>]
JBool(b) == [t |-> "bool", n |-> IF b THEN 1 ELSE 0, s |-> <<>>, xs |-> <<>>, ks |-> <<>>]
JNum(n) == [t |-> "num", n |-> n, s |-> <<>>, xs |-> <<>>, ks |-> <<>>]
JStr(cs) == [t |-> "str", n |-> 0, s |-> cs, xs |-> <<>>, ks |-> <<>>]
JList(xs) == [t |-> "list", n |-> 0, s |-> <<>>, xs |-> xs, ks |-> <<>>]
JDict(ks, xs) == [t |-> "dict", n |-> 0, s |-> <<>>, xs |-> xs, ks |-> ks]
JDatetime(cs) == [t |-> "datetime", n |-> 0, s |-> cs, xs |-> <<>>, ks |-> <<>>]

DigitChars == <<"0", "1", "2", "3", "4", "5", "6", "7", "8", "9">>

RECURSIVE NatChars(_)
\* str(n) for n >= 0
NatChars(n) ==
    IF n < 10 THEN <<DigitChars[n + 1]>>
    ELSE NatChars(n \div 10) \o <<DigitChars[(n % 10) + 1]>>

\* str(n) / int.__repr__ as json.dumps emits an int
IntChars(n) == IF n < 0 THEN <<"-">> \o NatChars(-n) ELSE NatChars(n)

RECURSIVE EscapeChars(_)
\* json.encoder.py_encode_basestring_ascii: the body of a string literal
EscapeChars(cs) ==
    IF cs = <<>> THEN <<>>
    ELSE LET c == Head(cs)
         IN (IF c = "\"" THEN <<"\\", "\"">>
             ELSE IF c = "\\" THEN <<"\\", "\\">>
             ELSE <<c>>) \o EscapeChars(Tail(cs))

QuoteChars(cs) == <<"\"">> \o EscapeChars(cs) \o <<"\"">>

RECURSIVE Spaces(_)
Spaces(n) == IF n = 0 THEN <<>> ELSE <<" ">> \o Spaces(n - 1)

\* indent=2 in json.dumps(data, indent=2, default=str)
IndentWidth == 2

NewlineIndent(level) == <<"\n">> \o Spaces(IndentWidth * level)

\* json.dumps coerces a non-string key: an int key becomes its decimal text
KeyChars(k) == IF k.t = "num" THEN IntChars(k.n) ELSE k.s

RECURSIVE DumpsAt(_, _), DumpItems(_, _), DumpEntries(_, _, _)
\* json.dumps(x, indent=2, default=str), x nested at `level`
DumpsAt(x, level) ==
    CASE x.t = "null" -> <<"n", "u", "l", "l">>
      [] x.t = "bool" -> IF x.n = 1 THEN <<"t", "r", "u", "e">>
                                ELSE <<"f", "a", "l", "s", "e">>
      [] x.t = "num" -> IntChars(x.n)
      [] x.t = "str" -> QuoteChars(x.s)
      [] x.t = "datetime" -> QuoteChars(x.s)      \* default=str
      [] x.t = "list" ->
            IF x.xs = <<>> THEN <<"[", "]">>
            ELSE <<"[">> \o NewlineIndent(level + 1) \o DumpItems(x.xs, level + 1)
                 \o NewlineIndent(level) \o <<"]">>
      [] x.t = "dict" ->
            IF x.ks = <<>> THEN <<"{", "}">>
            ELSE <<"{">> \o NewlineIndent(level + 1)
                 \o DumpEntries(x.ks, x.xs, level + 1)
                 \o NewlineIndent(level) \o <<"}">>

DumpItems(xs, level) ==
    IF Len(xs) = 1 THEN DumpsAt(xs[1], level)
    ELSE DumpsAt(xs[1], level) \o <<",">> \o NewlineIndent(level)
         \o DumpItems(Tail(xs), level)

DumpEntries(ks, xs, level) ==
    LET one == QuoteChars(KeyChars(ks[1])) \o <<":", " ">> \o DumpsAt(xs[1], level)
    IN IF Len(ks) = 1 THEN one
       ELSE one \o <<",">> \o NewlineIndent(level)
            \o DumpEntries(Tail(ks), Tail(xs), level)

Dumps(x) == DumpsAt(x, 0)


(***************************************************************************)
(* json.loads: a recursive-descent parse of the characters read from the   *)
(* file.  A parse result is [ok, v, i]: whether a value was read, the      *)
(* value, and the index of the first character after it.                   *)
(***************************************************************************)
ParseFail == [ok |-> FALSE, v |-> JNull, i |-> 0]
ParseOk(x, i) == [ok |-> TRUE, v |-> x, i |-> i]

IsDigit(c) == \E d \in 1..10 : DigitChars[d] = c
DigitValue(c) == (CHOOSE d \in 1..10 : DigitChars[d] = c) - 1
IsWhitespace(c) == c \in {" ", "\n", "\t", "\r"}

RECURSIVE SkipWs(_, _)
SkipWs(s, i) ==
    IF i <= Len(s) /\ IsWhitespace(s[i]) THEN SkipWs(s, i + 1) ELSE i

\* s[i..] starts with the characters of lit
StartsWith(s, i, lit) ==
    /\ i + Len(lit) - 1 <= Len(s)
    /\ \A j \in 1..Len(lit) : s[i + j - 1] = lit[j]

RECURSIVE ScanString(_, _, _)
\* json.decoder.scanstring: i is just after the opening quote
ScanString(s, i, acc) ==
    IF i > Len(s) THEN ParseFail
    ELSE IF s[i] = "\"" THEN ParseOk(JStr(acc), i + 1)
    ELSE IF s[i] = "\\" THEN
        IF i + 1 <= Len(s) /\ s[i + 1] \in {"\"", "\\"}
        THEN ScanString(s, i + 2, Append(acc, s[i + 1]))
        ELSE ParseFail
    ELSE ScanString(s, i + 1, Append(acc, s[i]))

RECURSIVE ScanDigits(_, _, _)
ScanDigits(s, i, acc) ==
    IF i <= Len(s) /\ IsDigit(s[i])
    THEN ScanDigits(s, i + 1, acc * 10 + DigitValue(s[i]))
    ELSE [v |-> acc, i |-> i]

\* json.scanner NUMBER_RE, integers only: -?(0|[1-9]\d*)
ScanNumber(s, i) ==
    LET neg == i <= Len(s) /\ s[i] = "-"
        j == IF neg THEN i + 1 ELSE i
    IN IF j > Len(s) \/ ~IsDigit(s[j]) THEN ParseFail
       ELSE IF s[j] = "0" THEN ParseOk(JNum(0), j + 1)
       ELSE LET d == ScanDigits(s, j, 0)
            IN ParseOk(JNum(IF neg THEN -d.v ELSE d.v), d.i)

\* d[k] = x on a Python dict: an existing key keeps its place, last value wins
DictPut(d, k, x) ==
    IF \E i \in 1..Len(d.ks) : d.ks[i] = k
    THEN JDict(d.ks, [i \in 1..Len(d.ks) |-> IF d.ks[i] = k THEN x ELSE d.xs[i]])
    ELSE JDict(Append(d.ks, k), Append(d.xs, x))

RECURSIVE ScanValue(_, _), ScanArray(_, _, _), ScanObject(_, _, _)
\* json.scanner.py_make_scanner._scan_once
ScanValue(s, i) ==
    IF i > Len(s) THEN ParseFail
    ELSE CASE s[i] = "\"" -> ScanString(s, i + 1, <<>>)
           [] s[i] = "{" ->
                LET j == SkipWs(s, i + 1)
                IN IF j <= Len(s) /\ s[j] = "}" THEN ParseOk(JDict(<<>>, <<>>), j + 1)
                   ELSE ScanObject(s, j, JDict(<<>>, <<>>))
           [] s[i] = "[" ->
                LET j == SkipWs(s, i + 1)
                IN IF j <= Len(s) /\ s[j] = "]" THEN ParseOk(JList(<<>>), j + 1)
                   ELSE ScanArray(s, j, <<>>)
           [] s[i] = "n" -> IF StartsWith(s, i, <<"n", "u", "l", "l">>)
                            THEN ParseOk(JNull, i + 4) ELSE ParseFail
           [] s[i] = "t" -> IF StartsWith(s, i, <<"t", "r", "u", "e">>)
                            THEN ParseOk(JBool(TRUE), i + 4) ELSE ParseFail
           [] s[i] = "f" -> IF StartsWith(s, i, <<"f", "a", "l", "s", "e">>)
                            THEN ParseOk(JBool(FALSE), i + 5) ELSE ParseFail
           [] OTHER -> ScanNumber(s, i)

\* json.decoder.JSONArray: i is at the first character of an element
ScanArray(s, i, acc) ==
    LET e == ScanValue(s, i)
    IN IF ~e.ok THEN ParseFail
       ELSE LET j == SkipWs(s, e.i)
                xs == Append(acc, e.v)
            IN IF j > Len(s) THEN ParseFail
               ELSE IF s[j] = "]" THEN ParseOk(JList(xs), j + 1)
               ELSE IF s[j] = "," THEN ScanArray(s, SkipWs(s, j + 1), xs)
               ELSE ParseFail

\* json.decoder.JSONObject: i is at the opening quote of a key
ScanObject(s, i, acc) ==
    IF i > Len(s) \/ s[i] # "\"" THEN ParseFail
    ELSE LET k == ScanString(s, i + 1, <<>>)
         IN IF ~k.ok THEN ParseFail
            ELSE LET c == SkipWs(s, k.i)
                 IN IF c > Len(s) \/ s[c] # ":" THEN ParseFail
                    ELSE LET e == ScanValue(s, SkipWs(s, c + 1))
                         IN IF ~e.ok THEN ParseFail
                            ELSE LET j == SkipWs(s, e.i)
                                     d == DictPut(acc, k.v, e.v)
                                 IN IF j > Len(s) THEN ParseFail
                                    ELSE IF s[j] = "}" THEN ParseOk(d, j + 1)
                                    ELSE IF s[j] = ","
                                         THEN ScanObject(s, SkipWs(s, j + 1), d)
                                    ELSE ParseFail

\* json.loads(content): [ok, v]; ~ok is a JSONDecodeError (empty input,
\* a malformed value, or extra data after the value)
Loads(s) ==
    LET r == ScanValue(s, SkipWs(s, 1))
    IN IF r.ok /\ SkipWs(s, r.i) = Len(s) + 1
       THEN [ok |-> TRUE, v |-> r.v]
       ELSE [ok |-> FALSE, v |-> JNull]


RECURSIVE Canon(_), CanonItems(_), CanonEntries(_, _, _)
\* The value a JSON text can carry for x: a datetime is its str() text, a
\* dict key is its text, and of two keys with the same text the last wins.
Canon(x) ==
    CASE x.t = "datetime" -> JStr(x.s)
      [] x.t = "list" -> JList(CanonItems(x.xs))
      [] x.t = "dict" -> CanonEntries(x.ks, x.xs, JDict(<<>>, <<>>))
      [] OTHER -> x

CanonItems(xs) ==
    IF xs = <<>> THEN <<>> ELSE <<Canon(xs[1])>> \o CanonItems(Tail(xs))

CanonEntries(ks, xs, acc) ==
    IF ks = <<>> THEN acc
    ELSE CanonEntries(Tail(ks), Tail(xs),
                      DictPut(acc, JStr(KeyChars(ks[1])), Canon(xs[1])))


(***************************************************************************)
(* Python operations on a loaded value, as the analyzers use them.  An     *)
(* operation that raises (TypeError, AttributeError, KeyError, IndexError) *)
(* is told apart from its value by the Can... predicates.                  *)
(***************************************************************************)
Chars(str) ==
    CASE str = "series" -> <<"s", "e", "r", "i", "e", "s">>
      [] str = "pointlist" -> <<"p", "o", "i", "n", "t", "l", "i", "s", "t">>
      [] str = "overall_state" ->
            <<"o", "v", "e", "r", "a", "l", "l", "_", "s", "t", "a", "t", "e">>
      [] str = "events" -> <<"e", "v", "e", "n", "t", "s">>
      [] str = "Alert" -> <<"A", "l", "e", "r", "t">>

IsScalar(x) == x.t \in {"num", "bool", "null"}

\* `name in x` raises TypeError on a number, a bool or None
CanContain(x) == ~IsScalar(x)

\* `name in x`: a key of a dict, an element of a list, a substring of a str
Contains(x, name) ==
    CASE x.t = "dict" -> \E i \in 1..Len(x.ks) : x.ks[i] = JStr(Chars(name))
      [] x.t = "list" -> \E i \in 1..Len(x.xs) : x.xs[i] = JStr(Chars(name))
      [] x.t = "str" -> \E i \in 1..Len(x.s) : StartsWith(x.s, i, Chars(name))
      [] OTHER -> FALSE

\* x[name] with a string subscript: only a dict that has the key
CanGetKey(x, name) == x.t = "dict" /\ Contains(x, name)
GetKey(x, name) == x.xs[CHOOSE i \in 1..Len(x.ks) : x.ks[i] = JStr(Chars(name))]

\* len(x)
CanLen(x) == ~IsScalar(x)
PyLen(x) == IF x.t = "str" THEN Len(x.s) ELSE Len(x.xs)

AlwaysTruthy(x) == TRUE

\* bool(x)
Truthy(x) ==
    CASE x.t \in {"num", "bool"} -> x.n # 0
      [] x.t = "null" -> FALSE
      [] OTHER -> PyLen(x) > 0

\* `for e in x`: the items of a list, the keys of a dict, the characters of a str
CanIter(x) == ~IsScalar(x)
Items(x) ==
    CASE x.t = "list" -> x.xs
      [] x.t = "dict" -> x.ks
      [] x.t = "str" -> [i \in 1..Len(x.s) |-> JStr(<<x.s[i]>>)]
      [] OTHER -> <<>>

\* x[i] with an int subscript (0-based): a list or a str that is long enough
CanIndex(x, i) == x.t \in {"list", "str"} /\ i < PyLen(x)
IndexLast(x, i) == Items(x)[Len(Items(x))]
Index(x, i) == Items(x)[i + 1]

\* m.get(name): only a dict has .get; a missing key gives None
CanGet(x) == x.t = "dict"
Get(x, name) == IF Contains(x, name) THEN GetKey(x, name) ELSE JNull

IsNumber(x) == x.t \in {"num", "bool"}

\* ns[lo] + ... + ns[hi], by halves
RECURSIVE SumRange(_, _, _)
SumRange(ns, lo, hi) ==
    IF lo > hi THEN 0
    ELSE IF lo = hi THEN ns[lo]
    ELSE LET mid == (lo + hi) \div 2
         IN SumRange(ns, lo, mid) + SumRange(ns, mid + 1, hi)

\* sum(ns)
SumSeq(ns) == SumRange(ns, 1, Len(ns))

SeqMin(ns) == CHOOSE m \in {ns[i] : i \in 1..Len(ns)} : \A i \in 1..Len(ns) : m <= ns[i]
SeqMax(ns) == CHOOSE m \in {ns[i] : i \in 1..Len(ns)} : \A i \in 1..Len(ns) : m >= ns[i]

FirstSeq(ss) == IF ss = <<>> THEN <<>> ELSE ss[1]

RECURSIVE FlattenSeq(_)
\* all_values.extend(values), series after series
FlattenSeq(ss) == IF ss = <<>> THEN <<>> ELSE ss[1] \o FlattenSeq(Tail(ss))

KeepAll(xs) == xs

\* `v is not None`
IsNotNone(v) == v.t # "null"

\* [v for v in xs if v is not None]
SelectNonNull(xs) == SelectSeq(xs, IsNotNone)


(***************************************************************************)
(* The analyzers.  An analyzer's output is a Python dict; it is modelled   *)
(* as a record of all the fields any analyzer sets, with `keys` the set of *)
(* keys the dict really has.  raised = TRUE stands for an exception that   *)
(* leaves the analyzer.  calculated_at / analyzed_at carry the clock       *)
(* reading; avg_value is the exact quotient num/den; change_percentage is  *)
(* in hundredths of a percent (round(change_pct, 2)).                      *)
(***************************************************************************)
NoOut ==
    [raised |-> FALSE, keys |-> {}, data_type |-> "", record_count |-> 0,
     key_insights |-> <<>>, total_data_points |-> 0, alerting_monitors |-> 0,
     min_value |-> 0, max_value |-> 0, avg_value |-> [num |-> 0, den |-> 1],
     total_points |-> 0, calculated_at |-> 0, trend_direction |-> "",
     analyzed_at |-> 0, change_percentage |-> 0]

Raised == [NoOut EXCEPT !.raised = TRUE]

\* the 1000 of `if total_points > 1000`
LargeDataset == 1000

IsLargeOrEqual(total_points) == total_points >= LargeDataset

\* `if total_points > 1000`
IsLarge(total_points) == total_points > LargeDataset

\* s.get("pointlist", [])
PointlistOrEmpty(x) ==
    IF Contains(x, "pointlist") THEN GetKey(x, "pointlist") ELSE JList(<<>>)

HasState(m) == Contains(m, "overall_state")

\* m.get("overall_state") == "Alert"
IsAlerting(m) == Get(m, "overall_state") = JStr(Chars("Alert"))

BranchEventsFirst(data) ==
    IF Contains(data, "events") THEN "events"
    ELSE IF Contains(data, "series") THEN "series"
    ELSE IF data.t = "list" /\ Len(data.xs) > 0 THEN "list"
    ELSE "else"

\* the if/elif chain of _generate_summary: the first condition that holds
Branch(data) ==
    IF Contains(data, "series") THEN "series"
    ELSE IF data.t = "list" /\ Len(data.xs) > 0 THEN "list"
    ELSE IF Contains(data, "events") THEN "events"
    ELSE "else"

_generate_summary(data) ==
    LET summary == [NoOut EXCEPT !.keys = {"data_type", "record_count", "key_insights"},
                                 !.data_type = "unknown"]
    IN IF ~CanContain(data) THEN Raised
       ELSE IF Branch(data) = "series" THEN
           IF ~CanGetKey(data, "series") THEN Raised
           ELSE LET series == GetKey(data, "series")
                    items == Items(series)
                IN IF ~CanLen(series) THEN Raised
                   ELSE IF \E i \in 1..Len(items) :
                              \/ ~CanGet(items[i])
                              \/ ~CanLen(PointlistOrEmpty(items[i]))
                   THEN Raised
                   ELSE LET total_points ==
                                SumSeq([i \in 1..Len(items) |->
                                            PyLen(PointlistOrEmpty(items[i]))])
                        IN [summary EXCEPT
                              !.data_type = "metrics",
                              !.record_count = PyLen(series),
                              !.total_data_points = total_points,
                              !.keys = @ \cup {"total_data_points"},
                              !.key_insights =
                                  IF IsLarge(total_points)
                                  THEN <<[n |-> 0,
                                          text |-> "Large dataset - consider aggregation"]>>
                                  ELSE <<>>]
       ELSE IF Branch(data) = "list" THEN
           IF ~CanContain(data.xs[1]) THEN Raised
           ELSE IF Contains(data.xs[1], "overall_state") THEN
               IF \E i \in 1..Len(data.xs) : ~CanGet(data.xs[i]) THEN Raised
               ELSE LET alerting ==
                            Cardinality({i \in 1..Len(data.xs) : IsAlerting(data.xs[i])})
                    IN [summary EXCEPT
                          !.data_type = "monitors",
                          !.record_count = Len(data.xs),
                          !.alerting_monitors = alerting,
                          !.keys = @ \cup {"alerting_monitors"},
                          !.key_insights =
                              IF alerting > 0
                              THEN <<[n |-> alerting,
                                      text |-> " monitors currently alerting"]>>
                              ELSE <<>>]
           ELSE summary
       ELSE IF Branch(data) = "events" THEN
           IF ~CanGetKey(data, "events") THEN Raised
           ELSE IF ~CanLen(GetKey(data, "events")) THEN Raised
           ELSE [summary EXCEPT !.data_type = "events",
                                !.record_count = PyLen(GetKey(data, "events"))]
       ELSE summary

\* [p[1] for p in pointlist if p[1] is not None] raises unless pointlist can be
\* iterated and every p has an element 1
CanPointValues(pl) ==
    /\ CanIter(pl)
    /\ \A i \in 1..Len(Items(pl)) : CanIndex(Items(pl)[i], 1)
PointStamps(pl) ==
    SelectNonNull([i \in 1..Len(Items(pl)) |-> Index(Items(pl)[i], 0)])
PointValues(pl) ==
    SelectNonNull([i \in 1..Len(Items(pl)) |-> Index(Items(pl)[i], 1)])

\* one turn of `for series in data["series"]` in _calculate_stats
CanSeriesValues(series) ==
    /\ CanContain(series)
    /\ Contains(series, "pointlist") =>
          /\ CanGetKey(series, "pointlist")
          /\ CanPointValues(GetKey(series, "pointlist"))
SeriesValues(series) ==
    IF Contains(series, "pointlist") THEN PointValues(GetKey(series, "pointlist"))
    ELSE <<>>

_calculate_stats(data, clock) ==
    LET stats == [NoOut EXCEPT !.keys = {"calculated_at"}, !.calculated_at = clock]
    IN IF ~CanContain(data) THEN Raised
       ELSE IF ~Contains(data, "series") THEN stats
       ELSE IF ~CanGetKey(data, "series") THEN Raised
       ELSE IF ~CanIter(GetKey(data, "series")) THEN Raised
       ELSE LET items == Items(GetKey(data, "series"))
            IN IF \E i \in 1..Len(items) : ~CanSeriesValues(items[i]) THEN Raised
               ELSE LET all_values ==
                            FlattenSeq([i \in 1..Len(items) |-> SeriesValues(items[i])])
                        nums == [i \in 1..Len(all_values) |-> all_values[i].n]
                    IN IF all_values = <<>> THEN stats
                       \* min/max/sum raise TypeError on a value that is no number
                       ELSE IF \E i \in 1..Len(all_values) : ~IsNumber(all_values[i])
                       THEN Raised
                       ELSE [stats EXCEPT
                               !.keys = @ \cup {"min_value", "max_value",
                                                "avg_value", "total_points"},
                               !.min_value = SeqMin(nums),
                               !.max_value = SeqMax(nums),
                               !.avg_value = [num |-> SumSeq(nums), den |-> Len(nums)],
                               !.total_points = Len(nums)]

\* `change_pct > 10` / `change_pct < -10`
TrendThreshold == 10

Abs(n) == IF n < 0 THEN -n ELSE n

\* round(num / den * 100) for den # 0, halves to even: the hundredths of num/den
RoundHundredths(num, den) ==
    LET n == IF den < 0 THEN -num ELSE num
        d == Abs(den)
        a == Abs(n) * 100
        q == a \div d
        r == a % d
        m == IF 2 * r > d \/ (2 * r = d /\ q % 2 = 1) THEN q + 1 ELSE q
    IN IF n < 0 THEN -m ELSE m

RatioGreaterOrEqual(num, den, k) == IF den > 0 THEN num >= k * den ELSE num <= k * den

\* num/den > k and num/den < k for den # 0
RatioGreater(num, den, k) == IF den > 0 THEN num > k * den ELSE num < k * den
RatioLess(num, den, k) == IF den > 0 THEN num < k * den ELSE num > k * den

_analyze_trends(data, clock) ==
    LET trends == [NoOut EXCEPT !.keys = {"trend_direction", "analyzed_at"},
                                !.trend_direction = "stable",
                                !.analyzed_at = clock]
    IN IF ~CanContain(data) THEN Raised
       ELSE IF ~Contains(data, "series") THEN trends
       ELSE IF ~CanGetKey(data, "series") THEN Raised
       ELSE IF ~Truthy(GetKey(data, "series")) THEN trends
       ELSE IF ~CanIndex(GetKey(data, "series"), 0) THEN Raised
       ELSE LET series == Index(GetKey(data, "series"), 0)
            IN IF ~CanContain(series) THEN Raised
               ELSE IF ~Contains(series, "pointlist") THEN trends
               ELSE IF ~CanGetKey(series, "pointlist") THEN Raised
               ELSE LET pl == GetKey(series, "pointlist")
                    IN IF ~CanLen(pl) THEN Raised
                       ELSE IF ~(PyLen(pl) > 1) THEN trends
                       ELSE IF ~CanPointValues(pl) THEN Raised
                       ELSE LET values == PointValues(pl)
                                first_val == values[1]
                                last_val == values[Len(values)]
                                num == (last_val.n - first_val.n) * 100
                                den == first_val.n
                            IN IF ~(Len(values) >= 2) THEN trends
                               ELSE IF IsNumber(first_val) /\ first_val.n = 0 THEN trends
                               \* (last_val - first_val) / first_val raises TypeError
                               ELSE IF ~IsNumber(first_val) \/ ~IsNumber(last_val)
                               THEN Raised
                               ELSE [trends EXCEPT
                                       !.keys = @ \cup {"change_percentage"},
                                       !.change_percentage = RoundHundredths(num, den),
                                       !.trend_direction =
                                           IF RatioGreater(num, den, TrendThreshold)
                                           THEN "increasing"
                                           ELSE IF RatioLess(num, den, -TrendThreshold)
                                           THEN "decreasing"
                                           ELSE "stable"]


(***************************************************************************)
(* Bounds of the model.                                                    *)
(***************************************************************************)
\* clock ticks per second: st_mtime and now() are finer than the whole
\* seconds that go into a file name
TicksPerSecond == 2
\* how many times the clock is advanced
MaxTicks == 1
\* how many calls (store, cleanup, analyze) are made in all
MaxCalls == 2
\* how many different values uuid4()[:8] can take
NumUids == 2

(***************************************************************************)
(* Program constants and inputs.                                           *)
(***************************************************************************)
\* older_than_hours * 3600
SecondsPerHour == 3600
\* str(uuid.uuid4())[:8]
UidLength == 8

TicksPerHour == SecondsPerHour * TicksPerSecond
\* the clock reading when the server starts, in ticks
StartTime == 2 * TicksPerHour

Procs == {"p1", "p2"}
HoursChoices == {-1, 0, 1}
Modes == {"summary", "stats", "trends", "bogus"}
ClockSteps == {1, TicksPerHour}

HexChars == DigitChars \o <<"a", "b", "c", "d", "e", "f">>

RECURSIVE HexDigits(_, _)
\* n as `width` lower-case hexadecimal digits
HexDigits(n, width) ==
    IF width = 0 THEN <<>>
    ELSE HexDigits(n \div 16, width - 1) \o <<HexChars[(n % 16) + 1]>>

\* the values str(uuid.uuid4())[:8] is drawn from
Uids == {HexDigits(i, UidLength) : i \in 0..(NumUids - 1)}

\* DATA_DIR = Path("datadog_cache")
DATA_DIR == <<"d", "a", "t", "a", "d", "o", "g", "_", "c", "a", "c", "h", "e">>

JsonSuffix == <<".", "j", "s", "o", "n">>

\* f"{prefix}_{timestamp}_{unique_id}.json"
Filename(prefix, timestamp, unique_id) ==
    prefix \o <<"_">> \o IntChars(timestamp) \o <<"_">> \o unique_id \o JsonSuffix

\* DATA_DIR / filename
Filepath(filename) == DATA_DIR \o <<"/">> \o filename

TimestampInTicks(clock) == clock

\* int(datetime.now(timezone.utc).timestamp())
Timestamp(clock) == clock \div TicksPerSecond

\* DATA_DIR.glob("*.json") yields the entries of DATA_DIR whose name ends in .json
MatchesGlob(path) ==
    /\ Len(path) >= Len(DATA_DIR) + 1 + Len(JsonSuffix)
    /\ SubSeq(path, 1, Len(DATA_DIR) + 1) = DATA_DIR \o <<"/">>
    /\ SubSeq(path, Len(path) - Len(JsonSuffix) + 1, Len(path)) = JsonSuffix
    /\ \A i \in (Len(DATA_DIR) + 2)..Len(path) : path[i] # "/"

\* the values handed to _store_data, each under the prefix of the tool that
\* stores it: a metrics response that carries a datetime, and a bare number
DataMetrics ==
    JDict(<<JStr(Chars("series")), JStr(<<"a", "t">>)>>,
          <<JList(<<JDict(<<JStr(Chars("pointlist"))>>,
                          <<JList(<<JList(<<JNum(1), JNum(10)>>),
                                    JList(<<JNum(2), JNum(12)>>)>>)>>)>>),
            JDatetime(<<"2", "0", "2", "4", "-", "0", "1", "-", "0", "1">>)>>)
DataNumber == JNum(5)
StoreInputs ==
    {[data |-> DataMetrics, prefix |-> <<"m">>],
     [data |-> DataNumber, prefix |-> <<"n", "u", "m">>]}


(***************************************************************************)
(* What a call returns.  A tool result is a Python dict, modelled as a     *)
(* record of every field a result can have with `keys` the keys it really  *)
(* has; `returned` is the path _store_data returns.                        *)
(***************************************************************************)
NoPath == <<>>
NoError == [msg |-> "", detail |-> "", path |-> NoPath]
NoResult ==
    [keys |-> {}, error |-> NoError, deleted_count |-> 0, older_than_hours |-> 0,
     analysis_type |-> "", filepath |-> NoPath, result |-> NoOut, returned |-> NoPath]

\* {"error": f"{msg}: {detail or path}"}
ErrorResult(msg, detail, path) ==
    [NoResult EXCEPT !.keys = {"error"},
                     !.error = [msg |-> msg, detail |-> detail, path |-> path]]

\* the dict cleanup_cache returns after its loop
CleanupResult(deleted_count, older_than_hours) ==
    [NoResult EXCEPT !.keys = {"summary", "deleted_count", "cache_directory"},
                     !.deleted_count = deleted_count,
                     !.older_than_hours = older_than_hours]

\* the dict analyze_data returns after an analyzer ran
AnalysisResult(analysis_type, filepath, result) ==
    [NoResult EXCEPT !.keys = {"analysis_type", "filepath", "result"},
                     !.analysis_type = analysis_type,
                     !.filepath = filepath,
                     !.result = result]

IsAnyMode(analysis_type) == TRUE

\* the modes the if/elif chain of analyze_data dispatches on
IsKnownMode(analysis_type) == analysis_type \in {"summary", "stats", "trends"}

\* analyze_data from json.loads on: the if/elif chain, the analyzer, the
\* result, under its `except Exception`
Dispatch(data, filepath, analysis_type, clock) ==
    LET result == CASE analysis_type = "summary" -> _generate_summary(data)
                    [] analysis_type = "stats" -> _calculate_stats(data, clock)
                    [] analysis_type = "trends" -> _analyze_trends(data, clock)
                    [] OTHER -> NoOut
    IN IF ~IsKnownMode(analysis_type)
       THEN ErrorResult("Unknown analysis type", analysis_type, NoPath)
       ELSE IF result.raised
       THEN ErrorResult("Analysis failed", "TypeError", NoPath)
       ELSE AnalysisResult(analysis_type, filepath, result)

LoadAndAnalyzeModeFirst(fs, filepath, analysis_type, clock) ==
    IF ~IsKnownMode(analysis_type)
    THEN ErrorResult("Unknown analysis type", analysis_type, NoPath)
    ELSE IF filepath \notin DOMAIN fs
    THEN ErrorResult("Analysis failed", "FileNotFoundError", NoPath)
    ELSE IF ~Loads(fs[filepath].content).ok
    THEN ErrorResult("Analysis failed", "JSONDecodeError", NoPath)
    ELSE Dispatch(Loads(fs[filepath].content).v, filepath, analysis_type, clock)

\* analyze_data from the open on: read, json.loads, dispatch, under its
\* `except Exception`
LoadAndAnalyze(fs, filepath, analysis_type, clock) ==
    IF filepath \notin DOMAIN fs
    THEN ErrorResult("Analysis failed", "FileNotFoundError", NoPath)
    ELSE LET loaded == Loads(fs[filepath].content)
         IN IF ~loaded.ok
            THEN ErrorResult("Analysis failed", "JSONDecodeError", NoPath)
            ELSE Dispatch(loaded.v, filepath, analysis_type, clock)

\* the `if not Path(filepath).exists()` answer of analyze_data
NotFoundResult(filepath) == ErrorResult("Data file not found", "", filepath)

\* analyze_data run with nothing else in between its steps
analyze_data(fs, filepath, analysis_type, clock) ==
    IF filepath \notin DOMAIN fs THEN NotFoundResult(filepath)
    ELSE LoadAndAnalyze(fs, filepath, analysis_type, clock)

(***************************************************************************)
(* State.                                                                  *)
(*   now     the clock, in ticks                                           *)
(*   nticks  how often the clock was advanced                              *)
(*   ncalls  how many calls were started; a call's number is its id        *)
(*   files   the directory entries: path -> [content, mtime, ino, during]; *)
(*           ino is the id of the call that created the file, during the   *)
(*           processes that were inside a cleanup scan when a store        *)
(*           opened it (history)                                           *)
(*   proc    each process's position and the locals of its call            *)
(*   hist    history of each process's cleanup call                        *)
(*   stored  history of the _store_data calls that returned                *)
(*   chain   history: the last cleanup call, if it ran alone and nothing   *)
(*           was stored since                                              *)
(***************************************************************************)
VARIABLES now, nticks, ncalls, files, proc, hist, stored, chain

vars == <<now, nticks, ncalls, files, proc, hist, stored, chain>>

NoFiles == [f \in {} |-> 0]

File(content, mtime, ino, during) ==
    [content |-> content, mtime |-> mtime, ino |-> ino, during |-> during]

Idle ==
    [pc |-> "idle", op |-> "none", id |-> 0, path |-> NoPath, data |-> JNull,
     ino |-> 0, hours |-> 0, cutoff |-> 0, deleted_count |-> 0, todo |-> {},
     mode |-> "", result |-> NoResult]

NoChain == [valid |-> FALSE, ok |-> FALSE, hours |-> 0, cutoff |-> 0, began |-> 0]

NoHist ==
    [alone |-> FALSE, began |-> 0, snap |-> NoFiles, removed |-> {}, fresh |-> {},
     seen |-> {}, fault |-> "", prev |-> NoChain]

\* artifacts and a foreign file left in the directory by an earlier run
\* (DATA_DIR.mkdir(exist_ok=True) keeps what is there)
OldPathA == Filepath(Filename(<<"m">>, Timestamp(StartTime - TicksPerHour - 1),
                              HexDigits(10, UidLength)))
OldPathB == Filepath(Filename(<<"n", "u", "m">>, Timestamp(StartTime - TicksPerHour),
                              HexDigits(11, UidLength)))
ForeignPath == DATA_DIR \o <<"/", "n", "o", "t", "e", "s", ".", "t", "x", "t">>
MissingPath == DATA_DIR \o <<"/", "n", "o", "n", "e", ".", "j", "s", "o", "n">>

InitFiles ==
    (OldPathA :> File(Dumps(DataMetrics), StartTime - TicksPerHour - 1, -1, {}))
    @@ (OldPathB :> File(Dumps(DataNumber), StartTime - TicksPerHour, -2, {}))
    @@ (ForeignPath :> File(<<"h", "i">>, StartTime - TicksPerHour - 1, -3, {}))

Init ==
    /\ now = StartTime
    /\ nticks = 0
    /\ ncalls = 0
    /\ files = InitFiles
    /\ proc = [p \in Procs |-> Idle]
    /\ hist = [p \in Procs |-> NoHist]
    /\ stored = {}
    /\ chain = NoChain

\* p can start a call: it is not inside one.  The processes are alike, so
\* the first call of a run is taken to be p1's.
Callable(p) ==
    /\ proc[p].pc \in {"idle", "done", "raised"}
    /\ ncalls < MaxCalls
    /\ ncalls = 0 => p = "p1"

InCleanup(q) == proc[q].pc \in {"cleanup_list", "cleanup_scan", "cleanup_unlink"}
InStore(q) == proc[q].pc \in {"store_open", "store_write", "store_return"}

\* history: when p starts a store or a cleanup, the cleanup call of every
\* other process no longer runs alone
Disturbed(p) ==
    [q \in Procs |-> IF q = p THEN hist[q] ELSE [hist[q] EXCEPT !.alone = FALSE]]

RemoveNothing(fs, path) == fs

\* file_path.unlink(): the directory without the entry at path
Remove(fs, path) == [f \in DOMAIN fs \ {path} |-> fs[f]]


(***************************************************************************)
(* _store_data                                                             *)
(***************************************************************************)
\* timestamp, unique_id, filename, filepath: the code up to the open
StoreBegin(p, data, prefix, unique_id) ==
    /\ Callable(p)
    /\ ncalls' = ncalls + 1
    /\ proc' = [proc EXCEPT ![p] =
                  [Idle EXCEPT !.pc = "store_open", !.op = "store", !.id = ncalls + 1,
                               !.data = data,
                               !.path = Filepath(Filename(prefix, Timestamp(now),
                                                          unique_id))]]
    /\ hist' = [Disturbed(p) EXCEPT ![p] = NoHist]
    /\ chain' = NoChain
    /\ UNCHANGED <<now, nticks, files, stored>>

\* the file as open(filepath, 'w') leaves it: created empty, or, when the
\* path exists, the same file truncated
Opened(p) ==
    IF proc[p].path \in DOMAIN files
    THEN File(<<>>, now, files[proc[p].path].ino, {q \in Procs : InCleanup(q)})
    ELSE File(<<>>, now, proc[p].id, {q \in Procs : InCleanup(q)})

\* aiofiles.open(filepath, 'w'): the file exists and is empty from here on,
\* or the open raises OSError
StoreOpen(p) ==
    /\ proc[p].pc = "store_open"
    /\ \/ /\ files' = [f \in DOMAIN files \cup {proc[p].path} |->
                         IF f = proc[p].path THEN Opened(p) ELSE files[f]]
          /\ proc' = [proc EXCEPT ![p].pc = "store_write", ![p].ino = Opened(p).ino]
       \/ /\ proc' = [proc EXCEPT ![p].pc = "raised"]
          /\ UNCHANGED files
    /\ UNCHANGED <<now, nticks, ncalls, stored, hist, chain>>

\* the bytes of a file after `text` is written at offset 0
Overwrite(old, text) ==
    IF Len(old) > Len(text) THEN text \o SubSeq(old, Len(text) + 1, Len(old)) ELSE text

\* the directory after the write reaches the open file; a file that was
\* unlinked (or unlinked and created anew) in between is not the one written
Written(p) ==
    IF proc[p].path \in DOMAIN files /\ files[proc[p].path].ino = proc[p].ino
    THEN [files EXCEPT ![proc[p].path].content =
                           Overwrite(@, Dumps(proc[p].data)),
                       ![proc[p].path].mtime = now]
    ELSE files

StoreWriteSwallowing(p) ==
    /\ proc[p].pc = "store_write"
    /\ \/ /\ files' = Written(p)
          /\ proc' = [proc EXCEPT ![p].pc = "store_return"]
       \/ /\ proc' = [proc EXCEPT ![p].pc = "store_return"]
          /\ UNCHANGED files
    /\ UNCHANGED <<now, nticks, ncalls, stored, hist, chain>>

\* await f.write(json.dumps(data, indent=2, default=str)): the text reaches
\* the file, or the write raises OSError and leaves the file as it is
StoreWrite(p) ==
    /\ proc[p].pc = "store_write"
    /\ \/ /\ files' = Written(p)
          /\ proc' = [proc EXCEPT ![p].pc = "store_return"]
       \/ /\ proc' = [proc EXCEPT ![p].pc = "raised"]
          /\ UNCHANGED files
    /\ UNCHANGED <<now, nticks, ncalls, stored, hist, chain>>

\* the file is closed; return str(filepath)
StoreReturn(p) ==
    /\ proc[p].pc = "store_return"
    /\ proc' = [proc EXCEPT ![p].pc = "done",
                            ![p].result = [NoResult EXCEPT !.returned = proc[p].path]]
    /\ stored' = stored \cup
                   {[id |-> proc[p].id, path |-> proc[p].path, data |-> proc[p].data,
                     evicted |-> ~(/\ proc[p].path \in DOMAIN files
                                   /\ files[proc[p].path].ino = proc[p].ino)]}
    /\ UNCHANGED <<now, nticks, ncalls, files, hist, chain>>


(***************************************************************************)
(* cleanup_cache                                                           *)
(***************************************************************************)
\* cutoff_time = datetime.now(timezone.utc).timestamp() - (older_than_hours * 3600)
CutoffTime(clock, older_than_hours) == clock - older_than_hours * TicksPerHour

IsStaleOrEqual(mtime, cutoff_time) == mtime <= cutoff_time

\* file_path.stat().st_mtime < cutoff_time
IsStale(mtime, cutoff_time) == mtime < cutoff_time

\* deleted_count = 0, and the cutoff
CleanupBegin(p, older_than_hours) ==
    LET alone == \A q \in Procs \ {p} : ~InCleanup(q) /\ ~InStore(q)
        fs == [f \in DOMAIN files |-> [files[f] EXCEPT !.during = @ \ {p}]]
    IN /\ Callable(p)
       /\ ncalls' = ncalls + 1
       /\ proc' = [proc EXCEPT ![p] =
                     [Idle EXCEPT !.pc = "cleanup_list", !.op = "cleanup",
                                  !.id = ncalls + 1,
                                  !.hours = older_than_hours,
                                  !.cutoff = CutoffTime(now, older_than_hours)]]
       /\ files' = fs
       /\ hist' = [Disturbed(p) EXCEPT ![p] =
                     [NoHist EXCEPT !.alone = alone, !.began = now, !.snap = fs,
                                    !.prev = IF alone THEN chain ELSE NoChain]]
       /\ chain' = NoChain
       /\ UNCHANGED <<now, nticks, stored>>

\* history: the chain entry a finished cleanup call leaves
ChainOf(p, ok) ==
    IF hist[p].alone
    THEN [valid |-> TRUE, ok |-> ok, hours |-> proc[p].hours,
          cutoff |-> proc[p].cutoff, began |-> hist[p].began]
    ELSE NoChain

CleanupFailPartial(p, detail) ==
    /\ proc' = [proc EXCEPT ![p].pc = "done",
                            ![p].result =
                                [ErrorResult("Failed to cleanup cache", detail, NoPath)
                                   EXCEPT !.keys = @ \cup {"deleted_count"},
                                          !.deleted_count = proc[p].deleted_count]]
    /\ hist' = [hist EXCEPT ![p].fault = detail]
    /\ chain' = ChainOf(p, FALSE)
    /\ UNCHANGED <<now, nticks, ncalls, files, stored>>

\* `except Exception as e`: return {"error": f"Failed to cleanup cache: {e}"}
CleanupFail(p, detail) ==
    /\ proc' = [proc EXCEPT ![p].pc = "done",
                            ![p].result =
                                ErrorResult("Failed to cleanup cache", detail, NoPath)]
    /\ hist' = [hist EXCEPT ![p].fault = detail]
    /\ chain' = ChainOf(p, FALSE)
    /\ UNCHANGED <<now, nticks, ncalls, files, stored>>

\* DATA_DIR.glob("*.json"): the directory is read when the loop starts, or
\* reading it raises OSError
CleanupList(p) ==
    /\ proc[p].pc = "cleanup_list"
    /\ \/ /\ proc' = [proc EXCEPT ![p].pc = "cleanup_scan",
                                  ![p].todo = {f \in DOMAIN files : MatchesGlob(f)}]
          /\ UNCHANGED <<now, nticks, ncalls, files, stored, hist, chain>>
       \/ CleanupFail(p, "OSError")

\* `if file_path.stat().st_mtime < cutoff_time` for the next file of the loop
CleanupStat(p, file_path) ==
    /\ proc[p].pc = "cleanup_scan"
    /\ file_path \in proc[p].todo
    /\ IF file_path \notin DOMAIN files
       THEN CleanupFail(p, "FileNotFoundError")
       ELSE /\ proc' = [proc EXCEPT
                          ![p].todo = @ \ {file_path},
                          ![p].path = file_path,
                          ![p].pc = IF IsStale(files[file_path].mtime, proc[p].cutoff)
                                    THEN "cleanup_unlink" ELSE "cleanup_scan"]
            /\ hist' = [hist EXCEPT ![p].seen = @ \cup {file_path}]
            /\ UNCHANGED <<now, nticks, ncalls, files, stored, chain>>

\* file_path.unlink(); deleted_count += 1
CleanupUnlink(p) ==
    LET file_path == proc[p].path
    IN /\ proc[p].pc = "cleanup_unlink"
       /\ \/ /\ file_path \notin DOMAIN files
             /\ CleanupFail(p, "FileNotFoundError")
          \/ /\ file_path \in DOMAIN files
             /\ CleanupFail(p, "PermissionError")
          \/ /\ file_path \in DOMAIN files
             /\ files' = Remove(files, file_path)
             /\ proc' = [proc EXCEPT ![p].pc = "cleanup_scan",
                                     ![p].deleted_count = @ + 1]
             /\ hist' = [hist EXCEPT
                           ![p].removed = @ \cup {file_path},
                           ![p].fresh = IF p \in files[file_path].during
                                        THEN @ \cup {file_path} ELSE @]
             /\ stored' = {[r EXCEPT !.evicted = @ \/ r.path = file_path] :
                             r \in stored}
             /\ UNCHANGED <<now, nticks, ncalls, chain>>

\* the loop is over: return summary, deleted_count, cache_directory
CleanupReturn(p) ==
    /\ proc[p].pc = "cleanup_scan"
    /\ proc[p].todo = {}
    /\ proc' = [proc EXCEPT ![p].pc = "done",
                            ![p].result = CleanupResult(proc[p].deleted_count,
                                                        proc[p].hours)]
    /\ chain' = ChainOf(p, TRUE)
    /\ UNCHANGED <<now, nticks, ncalls, files, stored, hist>>

(***************************************************************************)
(* analyze_data                                                            *)
(***************************************************************************)
\* the paths a caller passes: any file of the directory, any path a store
\* returned, a path that never existed
AnalyzePaths == DOMAIN files \cup {r.path : r \in stored} \cup {MissingPath}

\* `if not Path(filepath).exists(): return {"error": ...}`
AnalyzeBegin(p, filepath, analysis_type) ==
    /\ Callable(p)
    /\ ncalls' = ncalls + 1
    /\ proc' = [proc EXCEPT ![p] =
                  IF filepath \in DOMAIN files
                  THEN [Idle EXCEPT !.pc = "analyze_read", !.op = "analyze",
                                    !.id = ncalls + 1, !.path = filepath,
                                    !.mode = analysis_type]
                  ELSE [Idle EXCEPT !.pc = "done", !.op = "analyze",
                                    !.id = ncalls + 1, !.path = filepath,
                                    !.mode = analysis_type,
                                    !.result = NotFoundResult(filepath)]]
    /\ hist' = [hist EXCEPT ![p] = NoHist]
    /\ UNCHANGED <<now, nticks, files, stored, chain>>

AnalyzeReadPersisting(p) ==
    /\ proc[p].pc = "analyze_read"
    /\ proc' = [proc EXCEPT ![p].pc = "done",
                            ![p].result = LoadAndAnalyze(files, proc[p].path,
                                                         proc[p].mode, now)]
    /\ files' = ((proc[p].path \o <<".", "o", "u", "t">>)
                    :> File(<<>>, now, proc[p].id, {})) @@ files
    /\ UNCHANGED <<now, nticks, ncalls, stored, hist, chain>>

\* aiofiles.open(filepath, 'r'), read, json.loads, the analyzer, the result
AnalyzeRead(p) ==
    /\ proc[p].pc = "analyze_read"
    /\ proc' = [proc EXCEPT ![p].pc = "done",
                            ![p].result = LoadAndAnalyze(files, proc[p].path,
                                                         proc[p].mode, now)]
    /\ UNCHANGED <<now, nticks, ncalls, files, stored, hist, chain>>

(***************************************************************************)
(* The clock.                                                              *)
(***************************************************************************)
Tick(d) ==
    /\ nticks < MaxTicks
    /\ nticks' = nticks + 1
    /\ now' = now + d
    /\ UNCHANGED <<ncalls, files, proc, hist, stored, chain>>

Next ==
    \/ \E p \in Procs, in \in StoreInputs, unique_id \in Uids :
          StoreBegin(p, in.data, in.prefix, unique_id)
    \/ \E p \in Procs : StoreOpen(p)
    \/ \E p \in Procs : StoreWrite(p)
    \/ \E p \in Procs : StoreReturn(p)
    \/ \E p \in Procs, older_than_hours \in HoursChoices : CleanupBegin(p, older_than_hours)
    \/ \E p \in Procs : CleanupList(p)
    \/ \E p \in Procs, file_path \in DOMAIN InitFiles \cup DOMAIN files \cup
                                   {r.path : r \in stored} : CleanupStat(p, file_path)
    \/ \E p \in Procs : CleanupUnlink(p)
    \/ \E p \in Procs : CleanupReturn(p)
    \/ \E p \in Procs, filepath \in AnalyzePaths, analysis_type \in Modes :
          AnalyzeBegin(p, filepath, analysis_type)
    \/ \E p \in Procs : AnalyzeRead(p)
    \/ \E d \in ClockSteps : Tick(d)

Spec == Init /\ [][Next]_vars


(***************************************************************************)
(* Properties.                                                             *)
(***************************************************************************)
CleanupDone(p) == proc[p].op = "cleanup" /\ proc[p].pc = "done"
AnalyzeDone(p) == proc[p].op = "analyze" /\ proc[p].pc = "done"
Succeeded(p) == "error" \notin proc[p].result.keys

\* the *.json files of fs whose mtime is strictly below the cutoff
StaleIn(fs, cutoff_time) ==
    {f \in DOMAIN fs : MatchesGlob(f) /\ fs[f].mtime < cutoff_time}

\* C1: every path a _store_data(x, p) call returned, while the file is not
\* evicted, loads (read, json.loads) to x in canonical JSON form.
C1_RoundTrip ==
    \A r \in stored :
        ~r.evicted =>
            /\ r.path \in DOMAIN files
            /\ Loads(files[r.path].content) = [ok |-> TRUE, v |-> Canon(r.data)]

\* C2: a cleanup_cache call that ran alone and returned its result deleted
\* exactly the *.json files whose mtime was strictly below the cutoff,
\* reports their number, analyze_data on each deleted path answers "Data file
\* not found", and every other file is as it was.
C2_EvictionExact ==
    \A p \in Procs :
        (CleanupDone(p) /\ hist[p].alone /\ Succeeded(p)) =>
            LET snap == hist[p].snap
                gone == StaleIn(snap, proc[p].cutoff)
            IN /\ hist[p].removed = gone
               /\ DOMAIN files = DOMAIN snap \ gone
               /\ proc[p].result.deleted_count = Cardinality(gone)
               /\ \A f \in gone, m \in {"summary", "stats", "trends"} :
                      analyze_data(files, f, m, now) = NotFoundResult(f)
               /\ \A f \in DOMAIN snap \ gone :
                      /\ files[f] = snap[f]
                      /\ \A m \in {"summary", "stats", "trends"} :
                             analyze_data(files, f, m, now) = analyze_data(snap, f, m, now)

\* C2 witness: a scan that ran alone deleted a stale artifact and kept one
\* whose mtime is exactly the cutoff.
C2_Witness ==
    \E p \in Procs :
        /\ CleanupDone(p) /\ hist[p].alone /\ Succeeded(p)
        /\ hist[p].removed # {}
        /\ \E f \in DOMAIN files : MatchesGlob(f) /\ files[f].mtime = proc[p].cutoff

\* C3: whatever older_than_hours is, a cleanup_cache scan never deletes a
\* file that a _store_data call opened after the scan computed its cutoff.
C3_NoFreshEvicted == \A p \in Procs : hist[p].fresh = {}

\* C4: of two racing cleanup_cache calls neither returns an error because
\* the other removed a file first, and no file is deleted by both.
C4_RacingEvictionsTolerated ==
    /\ \A p \in Procs :
           CleanupDone(p) => proc[p].result.error.detail # "FileNotFoundError"
    /\ \A p, q \in Procs :
           (p # q /\ InCleanup(p) /\ InCleanup(q)) =>
               hist[p].removed \cap hist[q].removed = {}

\* C5: every artifact file that exists holds the complete JSON text of a
\* value that was stored; no reader can see it empty or partly written.
C5_ArtifactsComplete ==
    \A f \in DOMAIN files :
        MatchesGlob(f) => \E in \in StoreInputs : files[f].content = Dumps(in.data)

\* C6: no two _store_data calls return the same path, and no call is about
\* to open a path at which a file already exists.
C6_HandlesUnique ==
    /\ \A r1, r2 \in stored : r1.id # r2.id => r1.path # r2.path
    /\ \A p \in Procs : proc[p].pc = "store_open" => proc[p].path \notin DOMAIN files

\* C7: analyze_data never reports a file that is missing as anything but
\* "Data file not found".
C7_MissingIsNotFound ==
    \A p \in Procs :
        AnalyzeDone(p) =>
            ~(/\ proc[p].result.error.msg = "Analysis failed"
              /\ proc[p].result.error.detail = "FileNotFoundError")

C9_BestEffort ==
    \A p \in Procs :
        (CleanupDone(p) /\ hist[p].alone /\ hist[p].fault = "PermissionError") =>
            /\ Succeeded(p)
            /\ StaleIn(hist[p].snap, proc[p].cutoff) \ {proc[p].path} = hist[p].removed
            /\ proc[p].result.deleted_count = Cardinality(hist[p].removed)

\* p's cleanup call is the second of two successful calls in a row with the
\* same older_than_hours, with no store between or during them
SecondInARow(p) ==
    /\ CleanupDone(p) /\ hist[p].alone /\ Succeeded(p)
    /\ hist[p].prev.valid /\ hist[p].prev.ok
    /\ hist[p].prev.hours = proc[p].hours

MaxPoints == 3

\* the values of a point: null, zero, numbers 10% and more apart, and a
\* negative number
PointChoices == {JNull, JNum(0), JNum(9), JNum(10), JNum(11), JNum(12), JNum(-10)}

\* [[1, v1], [2, v2], ...]: a pointlist as the metrics query returns it
Pointlist(vs) == JList([i \in 1..Len(vs) |-> JList(<<JNum(i), vs[i]>>)])

Pointlists == {Pointlist(vs) : vs \in UNION {[1..n -> PointChoices] : n \in 0..MaxPoints}}

\* {"pointlist": pl}
Series(pl) == JDict(<<JStr(Chars("pointlist"))>>, <<pl>>)

\* {"series": [ ... ]}
Metrics(series) == JDict(<<JStr(Chars("series"))>>, <<JList(series)>>)

\* what follows the first series: nothing, a series without points, one with
\* only a null, one with values beyond those of the first series
LaterSeries ==
    {<<>>,
     <<JDict(<<>>, <<>>)>>,
     <<Series(Pointlist(<<JNull>>))>>,
     <<Series(Pointlist(<<JNum(30), JNull, JNum(-40)>>))>>,
     <<Series(Pointlist(<<JNum(0), JNum(7)>>)), Series(Pointlist(<<JNum(100)>>))>>}

MetricsInputs ==
    {Metrics(<<Series(pl)>> \o later) : pl \in Pointlists, later \in LaterSeries}

\* artifacts of other shapes: no series, no first series, a first series
\* without pointlist, events, monitors, a bare number
OtherInputs ==
    {JDict(<<>>, <<>>),
     Metrics(<<>>),
     Metrics(<<JDict(<<>>, <<>>), Series(Pointlist(<<JNum(10), JNum(12)>>))>>),
     JDict(<<JStr(Chars("events"))>>, <<JList(<<JNum(1), JNum(2)>>)>>),
     JList(<<JDict(<<JStr(Chars("overall_state"))>>, <<JStr(Chars("Alert"))>>)>>),
     JList(<<>>),
     DataNumber}

AnalysisInputs == MetricsInputs \cup OtherInputs

\* the modes a caller passes: the three analyzers, and strings that name none
AnalysisModes == Modes \cup {"", "Summary", "statistics"}

ArtifactPath ==
    Filepath(Filename(<<"m">>, Timestamp(StartTime), HexDigits(12, UidLength)))

\* the artifact as _store_data(x, "m") left it
ArtifactFiles(x) == ArtifactPath :> File(Dumps(x), StartTime, -1, {})

AnalysisInit ==
    /\ now = StartTime
    /\ nticks = 0
    /\ ncalls = 0
    /\ files \in {ArtifactFiles(x) : x \in AnalysisInputs}
    /\ proc = [p \in Procs |-> Idle]
    /\ hist = [p \in Procs |-> NoHist]
    /\ stored = {}
    /\ chain = NoChain

AnalysisNext ==
    \/ \E analysis_type \in AnalysisModes : AnalyzeBegin("p1", ArtifactPath, analysis_type)
    \/ AnalyzeRead("p1")

AnalysisSpec == AnalysisInit /\ [][AnalysisNext]_vars

\* the value json.loads gives for the artifact
Artifact == Loads(files[ArtifactPath].content).v

\* p1's analyze_data call on the artifact has returned
Analyzed(analysis_type) == AnalyzeDone("p1") /\ proc["p1"].mode = analysis_type

\* what the call returned under "result"
Output == proc["p1"].result.result


C12_StoreFailurePropagates ==
    /\ [](\A p \in Procs :
             (proc[p].op = "store" /\ proc[p].pc = "raised") =>
                 /\ proc[p].result.returned = NoPath
                 /\ \A r \in stored : r.id # proc[p].id)
    /\ [][\A p \in Procs :
             (proc[p].pc = "store_write" /\ proc'[p] # proc[p]) =>
                 \/ proc'[p].pc = "store_return" /\ files' = Written(p)
                 \/ proc'[p].pc = "raised" /\ files' = files]_vars

\* C12 witness: a store call has raised at its write (the open had
\* succeeded), and its file is there with nothing written to it.
C12_Witness ==
    \E p \in Procs :
        /\ proc[p].op = "store" /\ proc[p].pc = "raised" /\ proc[p].ino # 0
        /\ proc[p].path \in DOMAIN files
        /\ files[proc[p].path].content = <<>>


\* the analyzer analyze_data selects for a mode
Analyzer(analysis_type, data, clock) ==
    CASE analysis_type = "summary" -> _generate_summary(data)
      [] analysis_type = "stats" -> _calculate_stats(data, clock)
      [] analysis_type = "trends" -> _analyze_trends(data, clock)

\* C13: for an artifact that exists and holds valid JSON, analyze_data in
\* mode summary, stats or trends returns exactly the keys analysis_type (the
\* mode), filepath (the path as given) and result (the output of the
\* analyzer of that mode).
C13_OutputShape ==
    \A m \in {"summary", "stats", "trends"} :
        Analyzed(m) =>
            /\ proc["p1"].result.keys = {"analysis_type", "filepath", "result"}
            /\ proc["p1"].result.analysis_type = m
            /\ proc["p1"].result.filepath = ArtifactPath
            /\ ~Output.raised
            /\ Output = Analyzer(m, Artifact, now)


\* C14: no step of an analyze_data call, in any mode and whether the call
\* succeeds or fails, creates, changes or deletes a file of the cache
\* directory; the result is returned and not stored.
C14_AnalysisReadOnly ==
    [][\A p \in Procs :
          (proc'[p] # proc[p] /\ proc'[p].op = "analyze") =>
              (files' = files /\ stored' = stored)]_vars

\* C14 witness: one analyze_data call has succeeded and one has failed.
C14_Witness ==
    /\ \E p \in Procs : AnalyzeDone(p) /\ Succeeded(p)
    /\ \E p \in Procs : AnalyzeDone(p) /\ ~Succeeded(p)


\* the series of a metrics artifact, and the points of its i-th series
SeriesOf(data) == GetKey(data, "series").xs
PointsOf(data, i) ==
    IF Contains(SeriesOf(data)[i], "pointlist")
    THEN GetKey(SeriesOf(data)[i], "pointlist").xs
    ELSE <<>>

\* <<i, j>> for every point j of series i whose value is not null
NonNullPoints(data) ==
    {ij \in UNION {{<<i, j>> : j \in 1..Len(PointsOf(data, i))} :
                       i \in 1..Len(SeriesOf(data))} :
        PointsOf(data, ij[1])[ij[2]].xs[2].t # "null"}

\* the value of point <<i, j>>
ValueOf(data, ij) == PointsOf(data, ij[1])[ij[2]].xs[2].n

RECURSIVE SumOver(_, _)
SumOver(data, points) ==
    IF points = {} THEN 0
    ELSE LET ij == CHOOSE x \in points : TRUE
         IN ValueOf(data, ij) + SumOver(data, points \ {ij})

HasValues(data) == Contains(data, "series") /\ NonNullPoints(data) # {}

HasSeries(data) == Contains(data, "series") /\ Len(SeriesOf(data)) > 0

\* the indices of the non-null points of the first series, and the values
\* of the first and the last of them
FirstSeriesPoints(data) == {j \in 1..Len(PointsOf(data, 1)) : <<1, j>> \in NonNullPoints(data)}
FirstValue(data) ==
    ValueOf(data, <<1, CHOOSE j \in FirstSeriesPoints(data) :
                           \A k \in FirstSeriesPoints(data) : j <= k>>)
LastValue(data) ==
    ValueOf(data, <<1, CHOOSE j \in FirstSeriesPoints(data) :
                           \A k \in FirstSeriesPoints(data) : j >= k>>)

\* no percentage can be computed: no series entry, fewer than two non-null
\* points in the first series, or a first value of 0
NoPercentage(data) ==
    \/ ~HasSeries(data)
    \/ Cardinality(FirstSeriesPoints(data)) < 2
    \/ FirstValue(data) = 0

ChangeAbove(data, pct) ==
    IF FirstValue(data) > 0
    THEN 100 * (LastValue(data) - FirstValue(data)) > pct * FirstValue(data)
    ELSE 100 * (LastValue(data) - FirstValue(data)) < pct * FirstValue(data)
ChangeBelow(data, pct) ==
    IF FirstValue(data) > 0
    THEN 100 * (LastValue(data) - FirstValue(data)) < pct * FirstValue(data)
    ELSE 100 * (LastValue(data) - FirstValue(data)) > pct * FirstValue(data)

TrendOf(out) ==
    [raised |-> out.raised, keys |-> out.keys,
     trend_direction |-> out.trend_direction,
     change_percentage |-> out.change_percentage]

\* C19: an artifact with the same first series as the one analyzed, whatever
\* series follow it, gets the same trend_direction and change_percentage.
C19_FirstSeriesOnly ==
    (Analyzed("trends") /\ HasSeries(Artifact)) =>
        \A later \in LaterSeries :
            TrendOf(_analyze_trends(Metrics(<<SeriesOf(Artifact)[1]>> \o later), now))
                = TrendOf(Output)

\* C19 witness: the first series rises from 10 to 12 and is reported as
\* "increasing" although two more series follow, one starting at 0 and one
\* with a single point.
C19_Witness ==
    /\ Analyzed("trends")
    /\ HasSeries(Artifact) /\ Len(SeriesOf(Artifact)) = 3
    /\ Cardinality(FirstSeriesPoints(Artifact)) >= 2
    /\ FirstValue(Artifact) = 10 /\ LastValue(Artifact) = 12
    /\ Output.trend_direction = "increasing" /\ Output.change_percentage = 2000


\* change_percentage, in hundredths of a percent, is (last - first) / first
\* * 100 rounded to two places: it is within half a hundredth of the quotient
IsChangeOf(cp, first, last) ==
    2 * Abs(cp * first - 10000 * (last - first)) <= Abs(first)

\* the values of the first and the last point of the first series as the
\* pointlist has them, null or not
RawFirst(data) == PointsOf(data, 1)[1].xs[2]
RawLast(data) == PointsOf(data, 1)[Len(PointsOf(data, 1))].xs[2]

\* C20 as stated: when a percentage is computed, it is the change from the
\* value of the first point to the value of the last point of the first
\* series' pointlist in raw order, nulls not filtered out.
C20_RawEndpoints ==
    (Analyzed("trends") /\ ~Output.raised /\ "change_percentage" \in Output.keys) =>
        /\ IsNumber(RawFirst(Artifact)) /\ IsNumber(RawLast(Artifact))
        /\ IsChangeOf(Output.change_percentage,
                      RawFirst(Artifact).n, RawLast(Artifact).n)

\* C20: when a percentage is computed, it is the change from the first to
\* the last element of the null-filtered values of the first series'
\* pointlist: change_pct = (last - first) / first * 100, to two places.
C20_FilteredEndpoints ==
    (Analyzed("trends") /\ ~Output.raised /\ "change_percentage" \in Output.keys) =>
        /\ HasSeries(Artifact)
        /\ Cardinality(FirstSeriesPoints(Artifact)) >= 2
        /\ FirstValue(Artifact) # 0
        /\ IsChangeOf(Output.change_percentage,
                      FirstValue(Artifact), LastValue(Artifact))

\* C20 witness: the pointlist starts with a null point, then 10 and 12; the
\* percentage is 20.00, from 10 to 12.
C20_Witness ==
    /\ Analyzed("trends")
    /\ HasSeries(Artifact)
    /\ Len(PointsOf(Artifact, 1)) = 3 /\ RawFirst(Artifact) = JNull
    /\ FirstSeriesPoints(Artifact) = {2, 3}
    /\ FirstValue(Artifact) = 10 /\ LastValue(Artifact) = 12
    /\ "change_percentage" \in Output.keys /\ Output.change_percentage = 2000



(***************************************************************************)
(* The analyzers on their own: json.loads has returned a value of one of   *)
(* the shapes below, and analyze_data goes on from there in some mode.     *)
(***************************************************************************)
\* a pointlist of n points, every second value null
LongPointlist(n) ==
    JList([i \in 1..n |-> JList(<<JNum(i), IF i % 2 = 0 THEN JNull ELSE JNum(10)>>)])

\* how many points the long series have: around half of, and around, the
\* `total_points > 1000` mark
PointCounts == {LargeDataset \div 2, LargeDataset \div 2 + 1,
                LargeDataset - 1, LargeDataset, LargeDataset + 1}

NoPointlist == JDict(<<>>, <<>>)

\* {"series": [...]} with lists of series objects, short and long
SeriesLists ==
    {<<>>, <<NoPointlist>>, <<Series(Pointlist(<<JNull, JNum(10)>>)), NoPointlist>>}
    \cup {<<Series(LongPointlist(n))>> : n \in PointCounts}
    \cup {<<Series(LongPointlist(n)), NoPointlist, Series(LongPointlist(m))>> :
              n, m \in {LargeDataset \div 2, LargeDataset \div 2 + 1}}
    \cup {<<Series(LongPointlist(LargeDataset)), Series(Pointlist(vs))>> :
              vs \in {<<>>, <<JNull>>}}

Events(xs) == JDict(<<JStr(Chars("events"))>>, <<JList(xs)>>)

\* {"series": [...], "events": [...]}, in both key orders
MetricsAndEvents(series, xs) ==
    {JDict(<<JStr(Chars("series")), JStr(Chars("events"))>>, <<JList(series), JList(xs)>>),
     JDict(<<JStr(Chars("events")), JStr(Chars("series"))>>, <<JList(xs), JList(series)>>)}

MetricsShapes == {Metrics(series) : series \in SeriesLists}

\* {"overall_state": state}
Monitor(state) == JDict(<<JStr(Chars("overall_state"))>>, <<state>>)

\* the elements of a monitors list: alerting, in other states, without state
MonitorChoices ==
    {Monitor(JStr(Chars("Alert"))), Monitor(JStr(<<"O", "K">>)),
     Monitor(JStr(<<"a", "l", "e", "r", "t">>)), Monitor(JNull),
     JDict(<<JStr(<<"n", "a", "m", "e">>)>>, <<JStr(Chars("Alert"))>>)}

MaxMonitors == 3

\* lists of one to MaxMonitors objects
ObjectLists ==
    {JList(ms) : ms \in UNION {[1..n -> MonitorChoices] : n \in 1..MaxMonitors}}

\* {"events": [...]} with and without a "series" key beside it
EventsShapes ==
    {Events(xs) : xs \in {<<>>, <<JNum(1)>>, <<JDict(<<>>, <<>>), JNull, JStr(Chars("series"))>>}}
    \cup UNION {MetricsAndEvents(series, <<JNum(1), JNum(2)>>) :
                    series \in {<<>>, <<Series(Pointlist(<<JNum(10), JNull, JNum(12)>>))>>}}

\* values of none of the three shapes: objects with other keys, the empty
\* list, lists that start with something else than a monitor, scalars
OtherShapes ==
    {JDict(<<>>, <<>>), JDict(<<JStr(<<"n", "a", "m", "e">>)>>, <<JNum(1)>>),
     JList(<<>>), JList(<<JNum(5)>>), JList(<<JNull>>),
     JList(<<JStr(<<"a">>), Monitor(JStr(Chars("Alert")))>>),
     JNum(5), JNum(0), JStr(<<>>), JStr(<<"a", "b", "c">>),
     JBool(TRUE), JBool(FALSE), JNull}

\* what a "series" or "pointlist" field can hold instead of a list
NotALists ==
    {JNull, JNum(5), JStr(<<"a", "b">>), JDict(<<>>, <<>>),
     JDict(<<JStr(<<"a">>)>>, <<JNum(1)>>)}

\* {"series": x}, {"series": [{"pointlist": x}]} and a good series followed
\* by {"pointlist": x}, for x no list; a series that is no object
MalformedShapes ==
    {JDict(<<JStr(Chars("series"))>>, <<x>>) : x \in NotALists}
    \cup {Metrics(<<Series(x)>>) : x \in NotALists}
    \cup {Metrics(<<Series(Pointlist(<<JNum(10), JNum(12)>>)), Series(x)>>) : x \in NotALists}
    \cup {Metrics(<<JNull>>)}

ShapeInputs ==
    MetricsShapes \cup ObjectLists \cup EventsShapes \cup OtherShapes \cup MalformedShapes

LoadedInit ==
    /\ now = StartTime
    /\ nticks = 0
    /\ ncalls = 1
    /\ files = NoFiles
    /\ \E data \in ShapeInputs :
          proc = [p \in Procs |->
                    IF p = "p1"
                    THEN [Idle EXCEPT !.pc = "loaded", !.op = "analyze", !.id = 1,
                                      !.path = ArtifactPath, !.data = data]
                    ELSE Idle]
    /\ hist = [p \in Procs |-> NoHist]
    /\ stored = {}
    /\ chain = NoChain

\* the if/elif chain of analyze_data, the analyzer it selects and the return
AnalyzeLoaded(p, analysis_type) ==
    /\ proc[p].pc = "loaded"
    /\ proc' = [proc EXCEPT ![p].pc = "done", ![p].mode = analysis_type,
                            ![p].result = Dispatch(proc[p].data, proc[p].path,
                                                   analysis_type, now)]
    /\ UNCHANGED <<now, nticks, ncalls, files, stored, hist, chain>>

LoadedNext == \E analysis_type \in AnalysisModes : AnalyzeLoaded("p1", analysis_type)

AnalyzerSpec == LoadedInit /\ [][LoadedNext]_vars

\* the value the analyzers were given
Loaded == proc["p1"].data


\* an object whose "series" is a list of objects, each with a list as
\* "pointlist" or with none
IsSeriesList(data) ==
    /\ data.t = "dict" /\ Contains(data, "series")
    /\ GetKey(data, "series").t = "list"
    /\ \A i \in 1..Len(SeriesOf(data)) :
          /\ SeriesOf(data)[i].t = "dict"
          /\ Contains(SeriesOf(data)[i], "pointlist") =>
                GetKey(SeriesOf(data)[i], "pointlist").t = "list"

\* <<i, j>> for every point j of series i, null-valued or not
AllPoints(data) ==
    UNION {{<<i, j>> : j \in 1..Len(PointsOf(data, i))} : i \in 1..Len(SeriesOf(data))}

LargeInsight == [n |-> 0, text |-> "Large dataset - consider aggregation"]

InSeq(x, xs) == \E i \in 1..Len(xs) : xs[i] = x

IsMonitorList(data) ==
    /\ data.t = "list" /\ Len(data.xs) > 0
    /\ \A i \in 1..Len(data.xs) : data.xs[i].t = "dict"
    /\ \E k \in 1..Len(data.xs[1].ks) : data.xs[1].ks[k] = JStr(Chars("overall_state"))

\* the elements whose overall_state is there and equals "Alert"
AlertingIn(data) ==
    {i \in 1..Len(data.xs) :
        \E k \in 1..Len(data.xs[i].ks) :
            /\ data.xs[i].ks[k] = JStr(Chars("overall_state"))
            /\ data.xs[i].xs[k] = JStr(<<"A", "l", "e", "r", "t">>)}

HasKey(data, name) == data.t = "dict" /\ \E k \in 1..Len(data.ks) : data.ks[k] = JStr(Chars(name))

ValueAt(data, name) == data.xs[CHOOSE k \in 1..Len(data.ks) : data.ks[k] = JStr(Chars(name))]

SummaryKeys == {"data_type", "record_count", "key_insights"}

\* C23: _generate_summary takes one branch per artifact, the first that
\* matches in the order series, monitors list, events: the output has the
\* fields of one branch only; an object with both series and events keys is
\* summarized as "metrics", and an object with an events key (a list) and no
\* series key as "events" with record_count = the length of that list.
C23_FirstMatchWins ==
    (Analyzed("summary") /\ Succeeded("p1")) =>
        /\ Output.data_type \in {"metrics", "monitors", "events", "unknown"}
        /\ Output.keys = SummaryKeys \cup
              (CASE Output.data_type = "metrics" -> {"total_data_points"}
                 [] Output.data_type = "monitors" -> {"alerting_monitors"}
                 [] OTHER -> {})
        /\ (HasKey(Loaded, "series") /\ HasKey(Loaded, "events")) =>
              /\ Output.data_type = "metrics"
              /\ Output.record_count = Len(ValueAt(Loaded, "series").xs)
        /\ (HasKey(Loaded, "events") /\ ~HasKey(Loaded, "series")) =>
              /\ Output.data_type = "events"
              /\ Output.record_count = Len(ValueAt(Loaded, "events").xs)
              /\ Output.key_insights = <<>>

\* C23 witness: an object whose events key (two events) comes before its
\* series key (one series) was summarized as "metrics" with record_count 1.
C23_Witness ==
    /\ Analyzed("summary") /\ Succeeded("p1")
    /\ HasKey(Loaded, "series") /\ HasKey(Loaded, "events")
    /\ Loaded.ks[1] = JStr(Chars("events"))
    /\ Len(ValueAt(Loaded, "events").xs) = 2
    /\ Output.data_type = "metrics" /\ Output.record_count = 1
    /\ Output.keys = SummaryKeys \cup {"total_data_points"}


\* none of the three shapes: an object without series and events keys, an
\* empty list, a list whose first element is no object with overall_state,
\* a number, string, boolean or null
IsOtherShape(data) ==
    \/ data.t = "dict" /\ ~HasKey(data, "series") /\ ~HasKey(data, "events")
    \/ data.t = "list" /\ Len(data.xs) = 0
    \/ data.t = "list" /\ Len(data.xs) > 0 /\ ~HasKey(data.xs[1], "overall_state")
          /\ data.xs[1].t \in {"dict", "num", "bool", "null", "str"}
    \/ data.t \in {"num", "str", "bool", "null"}

\* C24: for an artifact of none of the three shapes (an object without
\* series or events keys, an empty list, a list whose first element lacks
\* overall_state, a scalar) summary analysis succeeds and returns data_type
\* "unknown" with record_count 0.
C24_SummaryFallback ==
    (Analyzed("summary") /\ IsOtherShape(Loaded)) =>
        /\ Succeeded("p1")
        /\ Output.data_type = "unknown"
        /\ Output.record_count = 0


\* an object whose series field is absent or no list, or one of whose series
\* is an object with a pointlist that is absent or no list
IsSeriesMalformed(data) ==
    /\ data.t = "dict"
    /\ \/ ~HasKey(data, "series")
       \/ ValueAt(data, "series").t # "list"
       \/ /\ ValueAt(data, "series").t = "list"
          /\ \A i \in 1..Len(ValueAt(data, "series").xs) :
                ValueAt(data, "series").xs[i].t = "dict"
          /\ \E i \in 1..Len(ValueAt(data, "series").xs) :
                \/ ~HasKey(ValueAt(data, "series").xs[i], "pointlist")
                \/ ValueAt(ValueAt(data, "series").xs[i], "pointlist").t # "list"

\* C25: when the series field of an artifact is absent or malformed (null,
\* not a list) or the pointlist of a series is absent or malformed, the
\* summary, stats and trends analyzers return a normal result; none of them
\* fails because of such a field.
C25_MalformedNotFaults ==
    \A m \in {"summary", "stats", "trends"} :
        (Analyzed(m) /\ IsSeriesMalformed(Loaded)) =>
            /\ Succeeded("p1")
            /\ ~Output.raised



\* path is "datadog_cache/<prefix>_<seconds>_<8 hex characters>.json"
IsHandle(path, prefix, seconds) ==
    LET head == <<"d", "a", "t", "a", "d", "o", "g", "_", "c", "a", "c", "h", "e", "/">>
                    \o prefix \o <<"_">> \o IntChars(seconds) \o <<"_">>
    IN /\ Len(path) = Len(head) + 8 + 5
       /\ SubSeq(path, 1, Len(head)) = head
       /\ \A i \in (Len(head) + 1)..(Len(head) + 8) :
             path[i] \in {"0", "1", "2", "3", "4", "5", "6", "7", "8", "9",
                          "a", "b", "c", "d", "e", "f"}
       /\ SubSeq(path, Len(head) + 9, Len(path)) = <<".", "j", "s", "o", "n">>

\* C26: the path of a _store_data(data, prefix) call is the cache directory
\* joined with "<prefix>_<unix seconds when the call was made>_<8
\* hexadecimal characters>.json"; the call keeps that path, opens the file
\* at that path, writes the artifact to it and to no other, and returns that
\* path.
C26_HandleEncoding ==
    [][\A p \in Procs :
          /\ (proc[p].pc # "store_open" /\ proc'[p].pc = "store_open") =>
                \E in \in StoreInputs :
                    /\ proc'[p].data = in.data
                    /\ IsHandle(proc'[p].path, in.prefix, now \div TicksPerSecond)
          /\ (InStore(p) /\ proc'[p] # proc[p]) =>
                /\ proc'[p].path = proc[p].path
                /\ \A f \in (DOMAIN files \cup DOMAIN files') \ {proc[p].path} :
                      f \in DOMAIN files /\ f \in DOMAIN files' /\ files'[f] = files[f]
          /\ (proc[p].pc = "store_open" /\ proc'[p].pc = "store_write") =>
                proc[p].path \in DOMAIN files'
          /\ (proc[p].pc = "store_write" /\ proc'[p].pc = "store_return"
                  /\ proc[p].path \in DOMAIN files
                  /\ files[proc[p].path].ino = proc[p].ino) =>
                LET text == Dumps(proc[p].data)
                IN SubSeq(files'[proc[p].path].content, 1, Len(text)) = text
          /\ (proc[p].pc = "store_return" /\ proc'[p].pc = "done") =>
                /\ proc'[p].result.returned = proc[p].path
                /\ \E r \in stored' : r.id = proc[p].id /\ r.path = proc[p].path]_vars

\* C26 witness: after the clock went on by an hour, _store_data(5, "num")
\* returned datadog_cache/num_10800_00000001.json and the file at that path
\* holds the artifact.
C26_Witness ==
    \E p \in Procs :
        /\ proc[p].op = "store" /\ proc[p].pc = "done"
        /\ proc[p].result.returned =
              <<"d", "a", "t", "a", "d", "o", "g", "_", "c", "a", "c", "h", "e", "/",
                "n", "u", "m", "_", "1", "0", "8", "0", "0", "_",
                "0", "0", "0", "0", "0", "0", "0", "1", ".", "j", "s", "o", "n">>
        /\ proc[p].result.returned \in DOMAIN files
        /\ files[proc[p].result.returned].content = Dumps(DataNumber)



\* C27: whenever _analyze_trends returns "increasing" the last value used is
\* greater than the first value used, and whenever it returns "decreasing"
\* the last is smaller than the first, for negative first values too.
C27_DirectionFollowsValues ==
    (Analyzed("trends") /\ Succeeded("p1")
        /\ Output.trend_direction \in {"increasing", "decreasing"}) =>
        /\ HasSeries(Artifact) /\ Cardinality(FirstSeriesPoints(Artifact)) >= 2
        /\ Output.trend_direction = "increasing" =>
              LastValue(Artifact) > FirstValue(Artifact)
        /\ Output.trend_direction = "decreasing" =>
              LastValue(Artifact) < FirstValue(Artifact)



\* C28: when _store_data raises (the open or the write fails), no file the
\* call created is at the path it generated, so no later call can find an
\* empty or truncated artifact there.
C28_FailedStoreLeavesNothing ==
    \A p \in Procs :
        (proc[p].op = "store" /\ proc[p].pc = "raised") =>
            ~(/\ proc[p].path \in DOMAIN files
              /\ files[proc[p].path].ino = proc[p].id)



\* C29: analyze_data checks existence first, then reads and parses the file,
\* and validates analysis_type last: for a path that is missing the call
\* returns "Data file not found" and for a file that does not parse
\* "Analysis failed", whatever analysis_type is; "Unknown analysis type" is
\* returned only for a file that exists and parses.
C29_OrderOfChecks ==
    [][\A p \in Procs :
          (proc'[p] # proc[p] /\ proc'[p].op = "analyze" /\ proc'[p].pc = "done") =>
              LET filepath == proc'[p].path
                  error == proc'[p].result.error
              IN /\ (proc[p].pc # "analyze_read" /\ filepath \notin DOMAIN files) =>
                        /\ proc'[p].result.keys = {"error"}
                        /\ error.msg = "Data file not found" /\ error.path = filepath
                 /\ error.msg = "Data file not found" =>
                        (proc[p].pc # "analyze_read" /\ filepath \notin DOMAIN files)
                 /\ (/\ proc[p].pc = "analyze_read" /\ filepath \in DOMAIN files
                     /\ ~Loads(files[filepath].content).ok) =>
                        /\ proc'[p].result.keys = {"error"}
                        /\ error.msg = "Analysis failed"
                 /\ error.msg = "Unknown analysis type" =>
                        /\ proc[p].pc = "analyze_read" /\ filepath \in DOMAIN files
                        /\ Loads(files[filepath].content).ok
                        /\ proc'[p].mode \notin {"summary", "stats", "trends"}]_vars

\* C29 witness: one call with an unrecognized analysis_type on a missing path
\* was answered "Data file not found", another on a file that is no JSON
\* was answered "Analysis failed".
C29_Witness ==
    /\ AnalyzeDone("p1") /\ AnalyzeDone("p2")
    /\ proc["p1"].mode = "bogus" /\ proc["p2"].mode = "bogus"
    /\ proc["p1"].path = MissingPath
    /\ proc["p1"].result.error.msg = "Data file not found"
    /\ proc["p2"].path \in DOMAIN files
    /\ ~Loads(files[proc["p2"].path].content).ok
    /\ proc["p2"].result.error.msg = "Analysis failed"



\* C30: for a fixed N >= 0, when time goes on and cleanup_cache(N) is called
\* again and again, every artifact written by _store_data is deleted in the
\* end, and no scan deletes an artifact whose modification time is at or
\* after the scan's cutoff (scan time - N*3600).  The formula is the second
\* half: the file a cleanup_cache(N) call unlinks has, at the unlink, a
\* modification time before the call's cutoff.
C30_NotDeletedBeforeCutoff ==
    [][\A p \in Procs :
          (/\ proc[p].pc = "cleanup_unlink" /\ proc[p].hours >= 0
           /\ proc[p].path \in DOMAIN files
           /\ proc[p].path \notin DOMAIN files') =>
              files[proc[p].path].mtime < proc[p].cutoff]_vars

=============================================================================
